---- MODULE Spec2Model ----
(***************************************************************************)
(* A model of backend/server.py: the diarization session (audio buffer,    *)
(* latest diarization result, manual speakers, id counter), the proximity  *)
(* matcher and the request handlers, with the provider's jobs and the      *)
(* background poll threads.                                                *)
(*                                                                         *)
(* Times are whole seconds.  Strings the program only stores and compares  *)
(* (names, raw labels, ids) are strings here; the two places where the     *)
(* program orders strings (the sort of the cost tuples) use the rank of    *)
(* the string in the table it is drawn from, which is its lexicographic    *)
(* rank.                                                                   *)
(***************************************************************************)
EXTENDS Integers, Sequences, FiniteSets, TLC

VARIABLES
    audio_buffer,         \* server.py:19  list of chunks
    current_diarization,  \* server.py:20  list of segments
    manual_speakers,      \* server.py:21  dict, kept as its items in insertion order
    speaker_counter,      \* server.py:22
    threads,              \* server.py:231-241  the live poll_and_process threads, by job id
    response,             \* the last HTTP response a handler returned
    minted,               \* the ids add_speaker has returned: ever, and since the last reset
    gs,                   \* the locals of the latest get_speakers request, and what it read
    rs,                   \* the position of the reset request in progress
    dz                    \* the locals of the diarize request in progress

vars == <<audio_buffer, current_diarization, manual_speakers, speaker_counter,
          threads, response, minted, gs, rs, dz>>

session == <<current_diarization, manual_speakers, speaker_counter>>

----------------------------------------------------------------------------
(* Bounds of the model *)

MaxTime == 2          \* timecodes and segment ends range over 0..MaxTime
MaxSegs == 2          \* segments in one diarization result (MatchSpec)
MaxAnchors == 2       \* anchors registered at once
MaxChunks == 2        \* chunks in audio_buffer
MaxAttempts == 2      \* stands for max_attempts of poll_job_status

----------------------------------------------------------------------------
(* Inputs *)

\* float('inf'), server.py:31
Infinity == 1000000

\* Raw labels the provider uses, in lexicographic order.
PyannoteLabels == <<"SPEAKER_00", "SPEAKER_01">>

\* f"MANUAL_{n:02d}" for n = 0..9, in lexicographic order.
ManualIdTable == <<"MANUAL_00", "MANUAL_01", "MANUAL_02", "MANUAL_03", "MANUAL_04",
                   "MANUAL_05", "MANUAL_06", "MANUAL_07", "MANUAL_08", "MANUAL_09">>

\* Names are only ever compared for equality
Names == {"Alice", "Bob"}

\* request.data of add_audio (server.py:182): byte strings, as sequences of bytes
Chunks == {<<1>>, <<2, 3>>}

\* The chunk sent where the content of the audio plays no part
SessionChunks == {<<1>>}

\* The job ids the provider hands out (job_data['jobId'], server.py:228); an
\* id is handed out again only after the thread that polled it has ended
JobIds == {"job-1"}
Times == 0..MaxTime

Range(s) == {s[i] : i \in DOMAIN s}

Rank(table, x) == CHOOSE i \in DOMAIN table : table[i] = x

Segments ==
    {[speaker |-> l, start |-> a, end |-> b] :
        l \in Range(PyannoteLabels), a \in Times, b \in Times}

\* The provider's segments have a positive duration
ValidSegments == {s \in Segments : s.start < s.end}

RECURSIVE SeqsUpTo(_, _)
SeqsUpTo(S, n) ==
    IF n = 0 THEN {<<>>}
    ELSE LET shorter == SeqsUpTo(S, n - 1)
         IN  shorter \cup {Append(q, x) : q \in {r \in shorter : Len(r) = n - 1}, x \in S}

----------------------------------------------------------------------------
(* Segment geometry, server.py:26-45 *)

Min(a, b) == IF a <= b THEN a ELSE b

\* server.py:34
Within(timecode, segment) ==
    segment.start <= timecode /\ timecode <= segment.end

\* server.py:38-41
Distance(timecode, segment) ==
    IF timecode < segment.start
    THEN segment.start - timecode
    ELSE timecode - segment.end

RECURSIVE MinDistanceFrom(_, _, _, _)
MinDistanceFrom(timecode, segments, i, min_distance) ==
    IF i > Len(segments) THEN min_distance
    ELSE IF Within(timecode, segments[i]) THEN 0
    ELSE MinDistanceFrom(timecode, segments, i + 1,
                         Min(min_distance, Distance(timecode, segments[i])))

calculate_min_distance_to_speaker(timecode, segments) ==
    MinDistanceFrom(timecode, segments, 1, Infinity)

----------------------------------------------------------------------------
(* Proximity matcher, server.py:48-92 *)

\* server.py:57-62: the segments of one raw label, in order
pyannote_segments(diarization_segments, speaker) ==
    SelectSeq(diarization_segments, LAMBDA segment : segment.speaker = speaker)

SpeakersOf(diarization_segments) ==
    {diarization_segments[i].speaker : i \in DOMAIN diarization_segments}

\* server.py:65-70: the cost tuples (cost, manual_id, pyannote_id)
CostList(diarization_segments, speakers) ==
    {[cost |-> calculate_min_distance_to_speaker(
                   speakers[k].timecode,
                   pyannote_segments(diarization_segments, l)),
      manual_id |-> speakers[k].id,
      pyannote_id |-> l] :
        k \in DOMAIN speakers, l \in SpeakersOf(diarization_segments)}

\* A sort whose key leaves the cost out: (manual_id, pyannote_id)
TupleLessByIdOnly(a, b) ==
    \/ Rank(ManualIdTable, a.manual_id) < Rank(ManualIdTable, b.manual_id)
    \/ /\ a.manual_id = b.manual_id
       /\ Rank(PyannoteLabels, a.pyannote_id) < Rank(PyannoteLabels, b.pyannote_id)

\* A sort that puts the highest cost first
TupleLessDescending(a, b) ==
    \/ a.cost > b.cost
    \/ /\ a.cost = b.cost
       /\ \/ Rank(ManualIdTable, a.manual_id) < Rank(ManualIdTable, b.manual_id)
          \/ /\ a.manual_id = b.manual_id
             /\ Rank(PyannoteLabels, a.pyannote_id) < Rank(PyannoteLabels, b.pyannote_id)

\* The order of Python's tuple comparison on (cost, manual_id, pyannote_id)
TupleLess(a, b) ==
    \/ a.cost < b.cost
    \/ /\ a.cost = b.cost
       /\ \/ Rank(ManualIdTable, a.manual_id) < Rank(ManualIdTable, b.manual_id)
          \/ /\ a.manual_id = b.manual_id
             /\ Rank(PyannoteLabels, a.pyannote_id) < Rank(PyannoteLabels, b.pyannote_id)

\* server.py:73  costs.sort()
RECURSIVE SortCosts(_)
SortCosts(costs) ==
    IF costs = {} THEN <<>>
    ELSE LET first == CHOOSE c \in costs : \A d \in costs \ {c} : TupleLess(c, d)
         IN  <<first>> \o SortCosts(costs \ {first})

NameOf(speakers, manual_id) ==
    LET k == CHOOSE j \in DOMAIN speakers : speakers[j].id = manual_id
    IN  speakers[k].name

\* A walk that does not look at used_manual
RECURSIVE GreedyAssignReusingAnchors(_, _, _, _, _, _)
GreedyAssignReusingAnchors(costs, i, mapping, used_manual, used_pyannote, speakers) ==
    IF i > Len(costs) THEN mapping
    ELSE IF costs[i].pyannote_id \notin used_pyannote
    THEN LET committed ==
                 (costs[i].pyannote_id :> NameOf(speakers, costs[i].manual_id)) @@ mapping
         IN  IF Cardinality(DOMAIN committed) = Len(speakers)
             THEN committed
             ELSE GreedyAssignReusingAnchors(costs, i + 1, committed,
                               used_manual \cup {costs[i].manual_id},
                               used_pyannote \cup {costs[i].pyannote_id},
                               speakers)
    ELSE GreedyAssignReusingAnchors(costs, i + 1, mapping, used_manual,
                                    used_pyannote, speakers)

\* server.py:80-90: the walk over the sorted tuples, with its break
RECURSIVE GreedyAssign(_, _, _, _, _, _)
GreedyAssign(costs, i, mapping, used_manual, used_pyannote, speakers) ==
    IF i > Len(costs) THEN mapping
    ELSE IF /\ costs[i].manual_id \notin used_manual
            /\ costs[i].pyannote_id \notin used_pyannote
    THEN LET committed ==
                 (costs[i].pyannote_id :> NameOf(speakers, costs[i].manual_id)) @@ mapping
         IN  IF Cardinality(DOMAIN committed) = Len(speakers)
             THEN committed
             ELSE GreedyAssign(costs, i + 1, committed,
                               used_manual \cup {costs[i].manual_id},
                               used_pyannote \cup {costs[i].pyannote_id},
                               speakers)
    ELSE GreedyAssign(costs, i + 1, mapping, used_manual, used_pyannote, speakers)

\* server.py:80-90: the tuples at which the test of line 81 holds, in the
\* order of the walk (one "Matched" line each, line 86)
RECURSIVE GreedyCommits(_, _, _, _, _, _)
GreedyCommits(costs, i, commits, used_manual, used_pyannote, speakers) ==
    IF i > Len(costs) THEN commits
    ELSE IF /\ costs[i].manual_id \notin used_manual
            /\ costs[i].pyannote_id \notin used_pyannote
    THEN LET committed == Append(commits, costs[i])
         IN  IF Cardinality({committed[k].pyannote_id : k \in DOMAIN committed})
                    = Len(speakers)
             THEN committed
             ELSE GreedyCommits(costs, i + 1, committed,
                                used_manual \cup {costs[i].manual_id},
                                used_pyannote \cup {costs[i].pyannote_id},
                                speakers)
    ELSE GreedyCommits(costs, i + 1, commits, used_manual, used_pyannote, speakers)

\* An empty dict
EmptyDict == [x \in {} |-> x]

map_pyannote_to_manual_speakers(diarization_segments, speakers) ==
    IF speakers = <<>> THEN EmptyDict
    ELSE GreedyAssign(SortCosts(CostList(diarization_segments, speakers)),
                      1, EmptyDict, {}, {}, speakers)

\* The pairings map_pyannote_to_manual_speakers commits
matched_pairs(diarization_segments, speakers) ==
    IF speakers = <<>> THEN <<>>
    ELSE GreedyCommits(SortCosts(CostList(diarization_segments, speakers)),
                       1, <<>>, {}, {}, speakers)

----------------------------------------------------------------------------
(* get_speakers, server.py:272-340 *)

\* A response: every handler fills the fields it returns
NoResponse ==
    [op |-> "", status |-> 0, success |-> FALSE, error |-> "",
     message |-> "", bufferSize |-> 0,
     id |-> "", name |-> "", timecode |-> -1,
     speakers |-> <<>>, totalTime |-> 0, timeline |-> <<>>]

Entry(id, name, time) == [id |-> id, name |-> name, time |-> time]

\* A listing that stops after the first anchor
ManualEntriesFirstOnly(speakers, mapped_names) ==
    IF speakers = <<>> THEN <<>>
    ELSE <<[id |-> Head(speakers).id, name |-> Head(speakers).name, time |-> 0]>>

\* server.py:279-284 and 316-322 without the filter
RECURSIVE ManualEntries(_, _)
ManualEntries(speakers, mapped_names) ==
    IF speakers = <<>> THEN <<>>
    ELSE LET rest == ManualEntries(Tail(speakers), mapped_names)
         IN  IF Head(speakers).name \notin mapped_names
             THEN <<Entry(Head(speakers).id, Head(speakers).name, 0)>> \o rest
             ELSE rest

\* server.py:296-303: a dict raw label -> seconds, kept as its items in insertion order
RECURSIVE SpeakerTimesFrom(_, _, _)
SpeakerTimesFrom(diarization, i, speaker_times) ==
    IF i > Len(diarization) THEN speaker_times
    ELSE LET pyannote_id == diarization[i].speaker
             duration == diarization[i].end - diarization[i].start
             known == {k \in DOMAIN speaker_times : speaker_times[k].id = pyannote_id}
         IN  IF known = {}
             THEN SpeakerTimesFrom(diarization, i + 1,
                      Append(speaker_times, [id |-> pyannote_id, time |-> 0 + duration]))
             ELSE SpeakerTimesFrom(diarization, i + 1,
                      [k \in DOMAIN speaker_times |->
                          IF k \in known
                          THEN [speaker_times[k] EXCEPT !.time = @ + duration]
                          ELSE speaker_times[k]])

speaker_times_of(diarization) == SpeakerTimesFrom(diarization, 1, <<>>)

\* server.py:307 and 331  mapping.get(pyannote_id, pyannote_id)
MappedName(mapping, pyannote_id) ==
    IF pyannote_id \in DOMAIN mapping THEN mapping[pyannote_id] ELSE pyannote_id

\* server.py:306-312
TimedEntries(speaker_times, mapping) ==
    [k \in DOMAIN speaker_times |->
        Entry(speaker_times[k].id, MappedName(mapping, speaker_times[k].id),
              speaker_times[k].time)]

\* server.py:315
mapped_names_of(mapping) == {mapping[l] : l \in DOMAIN mapping}

\* server.py:306-322
SpeakerList(speaker_times, mapping, speakers) ==
    TimedEntries(speaker_times, mapping)
        \o ManualEntries(speakers, mapped_names_of(mapping))

\* server.py:324
RECURSIVE SumTimes(_)
SumTimes(entries) ==
    IF entries = <<>> THEN 0 ELSE Head(entries).time + SumTimes(Tail(entries))

\* server.py:327-334
timeline_segments(diarization, mapping) ==
    [k \in DOMAIN diarization |->
        [speaker |-> MappedName(mapping, diarization[k].speaker),
         start |-> diarization[k].start,
         end |-> diarization[k].end]]

SpeakersResponse(entries, total_time, timeline) ==
    [NoResponse EXCEPT !.op = "get_speakers", !.status = 200,
                       !.speakers = entries, !.totalTime = total_time,
                       !.timeline = timeline]

\* The body get_speakers returns when nothing changes while it runs
GetSpeakersBody(diarization, speakers) ==
    IF diarization = <<>>
    THEN SpeakersResponse(ManualEntries(speakers, {}), 0, <<>>)
    ELSE LET mapping == map_pyannote_to_manual_speakers(diarization, speakers)
             entries == SpeakerList(speaker_times_of(diarization), mapping, speakers)
         IN  SpeakersResponse(entries, SumTimes(entries),
                              timeline_segments(diarization, mapping))

\* get_speakers handled without interleaving
get_speakers ==
    /\ response' = GetSpeakersBody(current_diarization, manual_speakers)
    /\ UNCHANGED <<audio_buffer, current_diarization, manual_speakers,
                   speaker_counter, threads, minted, gs, rs, dz>>

----------------------------------------------------------------------------
(* The matcher and the query on every session state within the bounds *)

Diarizations == SeqsUpTo(ValidSegments, MaxSegs)

\* The anchors k successful add_speaker calls leave, server.py:359-367
AnchorLists(k) ==
    {[i \in 1..k |-> [id |-> ManualIdTable[i], name |-> n[i],
                      timecode |-> t[i], order |-> i - 1]] :
        n \in {f \in [1..k -> Names] : k = 0 \/ f[1] = "Alice"}, t \in [1..k -> Times]}

IdleGs ==
    [pc |-> "idle", mapping |-> EmptyDict, speaker_times |-> <<>>, entries |-> <<>>,
     read_diarization |-> {}, read_speakers |-> {}]

\* The locals of a diarize request, server.py:202 and 219
IdleDz == [pc |-> "idle", num_speakers |-> 0, full_audio |-> <<>>]

MatchInit ==
    /\ audio_buffer = <<>>
    /\ current_diarization \in Diarizations
    /\ \E k \in 0..MaxAnchors :
          /\ manual_speakers \in AnchorLists(k)
          /\ speaker_counter = k
          /\ minted = [ever |-> {ManualIdTable[i] : i \in 1..k},
                       session |-> {ManualIdTable[i] : i \in 1..k}]
    /\ threads = EmptyDict
    /\ response = NoResponse
    /\ gs = IdleGs
    /\ rs = "idle"
    /\ dz = IdleDz

MatchNext == get_speakers

MatchSpec == MatchInit /\ [][MatchNext]_vars

----------------------------------------------------------------------------
(* The provider and the requests *)

\* One segment of a diarization
Seg(l, a, b) == [speaker |-> l, start |-> a, end |-> b]

\* The diarizations the provider delivers in the session runs
DeliveredDiarizations ==
    {<<>>,
     <<Seg("SPEAKER_00", 0, 1)>>,
     <<Seg("SPEAKER_00", 0, 1), Seg("SPEAKER_01", 1, 2)>>}

\* What a status request or a webhook call carries: data['status'], whether
\* data has an 'output', whether that output has a 'diarization', and it
JobData ==
    {[status |-> st, has_output |-> o, has_diarization |-> FALSE, diarization |-> <<>>] :
        st \in {"succeeded", "failed", "canceled"}, o \in BOOLEAN}
    \cup
    {[status |-> st, has_output |-> TRUE, has_diarization |-> TRUE, diarization |-> d] :
        st \in {"succeeded", "failed", "canceled"}, d \in DeliveredDiarizations}

\* The JSON bodies of add_speaker: data.get(...) is None for a missing key
RequestTimecodes == {0, 1}

AddRequests ==
    {[has_name |-> TRUE, name |-> n, has_timecode |-> TRUE, timecode |-> t] :
        n \in {"", "Alice"}, t \in RequestTimecodes}
    \cup {[has_name |-> FALSE, name |-> "", has_timecode |-> TRUE, timecode |-> 0],
          [has_name |-> TRUE, name |-> "Alice", has_timecode |-> FALSE, timecode |-> 0],
          [has_name |-> FALSE, name |-> "", has_timecode |-> FALSE, timecode |-> 0]}

----------------------------------------------------------------------------
(* process_diarization_result, server.py:163-173 *)

process_diarization_result(new_diarization) ==
    current_diarization' = new_diarization

----------------------------------------------------------------------------
(* add_audio, server.py:178-194 *)

add_audio(audio_data) ==
    /\ Len(audio_buffer) < MaxChunks
    /\ audio_buffer' = Append(audio_buffer, audio_data)
    /\ response' = [NoResponse EXCEPT !.op = "add_audio", !.status = 200,
                                      !.success = TRUE,
                                      !.bufferSize = Len(audio_buffer')]
    /\ UNCHANGED <<current_diarization, manual_speakers, speaker_counter,
                   threads, minted, gs, rs, dz>>

----------------------------------------------------------------------------
(* diarize and its poll thread, server.py:140-160 and 197-251 *)

\* A join that puts the chunks in reverse order
RECURSIVE JoinReversed(_)
JoinReversed(buffer) ==
    IF buffer = <<>> THEN <<>> ELSE JoinReversed(Tail(buffer)) \o Head(buffer)

\* server.py:219  b''.join(audio_buffer)
RECURSIVE Join(_)
Join(buffer) ==
    IF buffer = <<>> THEN <<>> ELSE Head(buffer) \o Join(Tail(buffer))

\* A poll_and_process thread: its position, attempts of poll_job_status,
\* result['status'] once poll_job_status returned, and the exception caught;
\* with it the audio uploaded for its job, and whether a reset began while
\* the thread was alive
NewThread(full_audio) ==
    [pc |-> "polling", attempts |-> 0, status |-> "", error |-> "",
     audio |-> full_audio, before_reset |-> FALSE]

\* server.py:205-209
diarize_no_speakers ==
    /\ Len(manual_speakers) = 0
    /\ response' = [NoResponse EXCEPT !.op = "diarize", !.status = 200,
                                      !.message = "No speakers added yet. Click + to add speakers."]
    /\ UNCHANGED <<audio_buffer, current_diarization, manual_speakers,
                   speaker_counter, threads, minted, gs, rs, dz>>

\* An empty buffer answered as a failure
diarize_no_audio_as_error ==
    /\ Len(manual_speakers) # 0
    /\ audio_buffer = <<>>
    /\ response' = [NoResponse EXCEPT !.op = "diarize", !.status = 500,
                                      !.error = "No audio to process"]
    /\ UNCHANGED <<audio_buffer, current_diarization, manual_speakers,
                   speaker_counter, threads, minted, gs, rs, dz>>

\* server.py:211-216
diarize_no_audio ==
    /\ Len(manual_speakers) # 0
    /\ audio_buffer = <<>>
    /\ response' = [NoResponse EXCEPT !.op = "diarize", !.status = 200,
                                      !.message = "No audio to process"]
    /\ UNCHANGED <<audio_buffer, current_diarization, manual_speakers,
                   speaker_counter, threads, minted, gs, rs, dz>>

\* server.py:224-227 raising, 249-251
diarize_upstream_error ==
    /\ Len(manual_speakers) # 0
    /\ audio_buffer # <<>>
    /\ response' = [NoResponse EXCEPT !.op = "diarize", !.status = 500,
                                      !.error = "HTTPError"]
    /\ UNCHANGED <<audio_buffer, current_diarization, manual_speakers,
                   speaker_counter, threads, minted, gs, rs, dz>>

\* A submission that drops the stored result
diarize_started_clearing(job_id) ==
    /\ Len(manual_speakers) # 0
    /\ audio_buffer # <<>>
    /\ job_id \notin DOMAIN threads
    /\ threads' = (job_id :> NewThread(Join(audio_buffer))) @@ threads
    /\ current_diarization' = <<>>
    /\ response' = [NoResponse EXCEPT !.op = "diarize", !.status = 200,
                                      !.success = TRUE]
    /\ UNCHANGED <<audio_buffer, manual_speakers,
                   speaker_counter, minted, gs, rs, dz>>

\* server.py:219-247
diarize_started(job_id) ==
    /\ Len(manual_speakers) # 0
    /\ audio_buffer # <<>>
    /\ job_id \notin DOMAIN threads
    /\ threads' = (job_id :> NewThread(Join(audio_buffer))) @@ threads
    /\ response' = [NoResponse EXCEPT !.op = "diarize", !.status = 200,
                                      !.success = TRUE]
    /\ UNCHANGED <<audio_buffer, current_diarization, manual_speakers,
                   speaker_counter, minted, gs, rs, dz>>

diarize ==
    \/ diarize_no_speakers
    \/ diarize_no_audio
    \/ diarize_upstream_error
    \/ \E job_id \in JobIds : diarize_started(job_id)

\* A delivery test that leaves the status out
PollDeliversAnyTerminal(result) == result.has_output

\* server.py:234
PollDelivers(result) == result.status = "succeeded" /\ result.has_output

\* server.py:145-149 raising, caught at 236
poll_request_fails(t) ==
    /\ threads[t].pc = "polling"
    /\ threads' = [threads EXCEPT ![t].pc = "done", ![t].error = "HTTPError"]
    /\ UNCHANGED <<audio_buffer, current_diarization, manual_speakers,
                   speaker_counter, response, minted, gs, rs, dz>>

\* A loop that polls once more than max_attempts
poll_pending_once_more(t) ==
    /\ threads[t].pc = "polling"
    /\ threads' = [threads EXCEPT
                      ![t].attempts = @ + 1,
                      ![t].pc = IF threads[t].attempts < MaxAttempts
                                THEN "polling" ELSE "done",
                      ![t].error = IF threads[t].attempts < MaxAttempts
                                   THEN "" ELSE "Job polling timeout"]
    /\ UNCHANGED <<audio_buffer, current_diarization, manual_speakers,
                   speaker_counter, response, minted, gs, rs, dz>>

\* server.py:151-160: a status that is not terminal; the last one raises the timeout
poll_pending(t) ==
    /\ threads[t].pc = "polling"
    /\ threads' = [threads EXCEPT
                      ![t].attempts = @ + 1,
                      ![t].pc = IF threads[t].attempts + 1 < MaxAttempts
                                THEN "polling" ELSE "done",
                      ![t].error = IF threads[t].attempts + 1 < MaxAttempts
                                   THEN "" ELSE "Job polling timeout"]
    /\ UNCHANGED <<audio_buffer, current_diarization, manual_speakers,
                   speaker_counter, response, minted, gs, rs, dz>>

\* server.py:154-155 and 233-237: a terminal status, then the delivery
poll_terminal(t, data) ==
    /\ threads[t].pc = "polling"
    /\ IF PollDelivers(data)
       THEN IF data.has_diarization
            THEN /\ process_diarization_result(data.diarization)
                 /\ threads' = [threads EXCEPT ![t].pc = "done",
                                               ![t].status = data.status]
            ELSE /\ UNCHANGED current_diarization
                 /\ threads' = [threads EXCEPT ![t].pc = "done",
                                               ![t].status = data.status,
                                               ![t].error = "KeyError"]
       ELSE /\ UNCHANGED current_diarization
            /\ threads' = [threads EXCEPT ![t].pc = "done",
                                          ![t].status = data.status]
    /\ UNCHANGED <<audio_buffer, manual_speakers, speaker_counter,
                   response, minted, gs, rs, dz>>

\* The thread function returns
thread_exit(t) ==
    /\ threads[t].pc = "done"
    /\ threads' = [k \in DOMAIN threads \ {t} |-> threads[k]]
    /\ UNCHANGED <<audio_buffer, current_diarization, manual_speakers,
                   speaker_counter, response, minted, gs, rs, dz>>

----------------------------------------------------------------------------
(* webhook_diarization, server.py:254-269 *)

\* server.py:262
WebhookDelivers(data) ==
    data.status = "succeeded" /\ data.has_output /\ data.has_diarization

webhook_diarization(data) ==
    /\ IF WebhookDelivers(data)
       THEN process_diarization_result(data.diarization)
       ELSE UNCHANGED current_diarization
    /\ response' = [NoResponse EXCEPT !.op = "webhook", !.status = 200,
                                      !.success = TRUE]
    /\ UNCHANGED <<audio_buffer, manual_speakers, speaker_counter,
                   threads, minted, gs, rs, dz>>

----------------------------------------------------------------------------
(* add_speaker, server.py:343-380 *)

\* server.py:353  not name
NameRejected(data) == ~data.has_name \/ data.name = ""

\* A test "not timecode", which also rejects 0
TimecodeRejectedWhenFalsy(data) == ~data.has_timecode \/ data.timecode = 0

\* server.py:355  timecode is None
TimecodeRejected(data) == ~data.has_timecode

\* server.py:359  f"MANUAL_{speaker_counter:02d}"
FormatManualId(n) == ManualIdTable[n + 1]

\* A counter that is not advanced
CounterNotAdvanced(n) == n

\* server.py:360
NextCounter(n) == n + 1

\* server.py:363-367  manual_speakers[speaker_id] = {...}
DictSet(speakers, id, name, timecode) ==
    LET item == [id |-> id, name |-> name, timecode |-> timecode,
                 order |-> Len(speakers)]
        at == {k \in DOMAIN speakers : speakers[k].id = id}
    IN  IF at = {} THEN Append(speakers, item)
        ELSE [k \in DOMAIN speakers |-> IF k \in at THEN item ELSE speakers[k]]

add_speaker_rejected(data) ==
    /\ NameRejected(data) \/ TimecodeRejected(data)
    /\ response' = [NoResponse EXCEPT
                       !.op = "add_speaker", !.status = 400,
                       !.error = IF NameRejected(data) THEN "Name is required"
                                 ELSE "Timecode is required"]
    /\ UNCHANGED <<audio_buffer, current_diarization, manual_speakers,
                   speaker_counter, threads, minted, gs, rs, dz>>

add_speaker_stored(data) ==
    /\ ~NameRejected(data) /\ ~TimecodeRejected(data)
    /\ Len(manual_speakers) < MaxAnchors
    /\ speaker_counter < Len(ManualIdTable)
    /\ speaker_counter' = NextCounter(speaker_counter)
    /\ manual_speakers' = DictSet(manual_speakers, FormatManualId(speaker_counter),
                                  data.name, data.timecode)
    /\ minted' = [ever |-> minted.ever \cup {FormatManualId(speaker_counter)},
                  session |-> minted.session \cup {FormatManualId(speaker_counter)}]
    /\ response' = [NoResponse EXCEPT
                       !.op = "add_speaker", !.status = 200, !.success = TRUE,
                       !.id = FormatManualId(speaker_counter),
                       !.name = data.name, !.timecode = data.timecode]
    /\ UNCHANGED <<audio_buffer, current_diarization, threads, gs, rs, dz>>

add_speaker(data) ==
    \/ add_speaker_rejected(data)
    \/ add_speaker_stored(data)

----------------------------------------------------------------------------
(* update_speaker_name, server.py:383-400 *)

\* custom_speaker_names is bound nowhere in the module: line 390 raises
\* NameError, which line 398 catches
update_speaker_name(speaker_id, name) ==
    /\ response' = [NoResponse EXCEPT
                       !.op = "update_speaker_name", !.status = 500,
                       !.id = speaker_id, !.name = name,
                       !.error = "name 'custom_speaker_names' is not defined"]
    /\ UNCHANGED <<audio_buffer, current_diarization, manual_speakers,
                   speaker_counter, threads, minted, gs, rs, dz>>

----------------------------------------------------------------------------
(* reset, server.py:403-415 *)

ResetResponse ==
    [NoResponse EXCEPT !.op = "reset", !.status = 200, !.success = TRUE]

\* reset leaves the poll threads running; the threads alive when it begins
\* are remembered as started before it
AliveAtReset(ts) == [t \in DOMAIN ts |-> [ts[t] EXCEPT !.before_reset = TRUE]]

\* A reset that leaves line 411 out
reset_keeping_diarization ==
    /\ audio_buffer' = <<>>
    /\ manual_speakers' = <<>>
    /\ speaker_counter' = 0
    /\ minted' = [minted EXCEPT !.session = {}]
    /\ response' = ResetResponse
    /\ threads' = AliveAtReset(threads)
    /\ UNCHANGED <<current_diarization, gs, rs, dz>>

reset ==
    /\ audio_buffer' = <<>>
    /\ current_diarization' = <<>>
    /\ manual_speakers' = <<>>
    /\ speaker_counter' = 0
    /\ minted' = [minted EXCEPT !.session = {}]
    /\ response' = ResetResponse
    /\ threads' = AliveAtReset(threads)
    /\ UNCHANGED <<gs, rs, dz>>

----------------------------------------------------------------------------
(* The session, every request handled without interleaving *)

Init ==
    /\ audio_buffer = <<>>
    /\ current_diarization = <<>>
    /\ manual_speakers = <<>>
    /\ speaker_counter = 0
    /\ threads = EmptyDict
    /\ response = NoResponse
    /\ minted = [ever |-> {}, session |-> {}]
    /\ gs = IdleGs
    /\ rs = "idle"
    /\ dz = IdleDz

Next ==
    \/ \E audio_data \in SessionChunks : add_audio(audio_data)
    \/ diarize
    \/ \E t \in DOMAIN threads : poll_request_fails(t)
    \/ \E t \in DOMAIN threads : poll_pending(t)
    \/ \E t \in DOMAIN threads, data \in JobData : poll_terminal(t, data)
    \/ \E t \in DOMAIN threads : thread_exit(t)
    \/ \E data \in JobData : webhook_diarization(data)
    \/ get_speakers
    \/ \E data \in AddRequests : add_speaker(data)
    \/ \E name \in {"Carol"} : update_speaker_name("SPEAKER_00", name)
    \/ reset

Spec == Init /\ [][Next]_vars

----------------------------------------------------------------------------
(* The jobs and their poll threads, each thread running on once started     *)
(* (thread.start(), server.py:241): every status request is answered or     *)
(* raises                                                                   *)

\* A step of poll_job_status in thread t
PollStep(t) ==
    /\ t \in DOMAIN threads
    /\ \/ poll_request_fails(t)
       \/ poll_pending(t)
       \/ \E data \in JobData : poll_terminal(t, data)

PollNext ==
    \/ \E audio_data \in SessionChunks : add_audio(audio_data)
    \/ \E data \in AddRequests : add_speaker(data)
    \/ diarize
    \/ \E t \in DOMAIN threads : poll_request_fails(t)
    \/ \E t \in DOMAIN threads : poll_pending(t)
    \/ \E t \in DOMAIN threads, data \in JobData : poll_terminal(t, data)
    \/ \E t \in DOMAIN threads : thread_exit(t)
    \/ reset

PollSpec ==
    /\ Init
    /\ [][PollNext]_vars
    /\ \A t \in JobIds : WF_vars(PollStep(t))

----------------------------------------------------------------------------
(* The session with get_speakers and reset running statement by statement,  *)
(* beside the other handlers (app.run(threaded=True), server.py:430; no     *)
(* lock is taken by get_speakers, process_diarization_result, add_speaker,  *)
(* or by reset after line 409)                                              *)

\* server.py:275-277
gs_begin ==
    /\ gs.pc = "idle"
    /\ gs' = [IdleGs EXCEPT
                 !.pc = IF current_diarization = <<>> THEN "no_diarization" ELSE "map",
                 !.read_diarization = {current_diarization}]
    /\ UNCHANGED <<audio_buffer, current_diarization, manual_speakers,
                   speaker_counter, threads, response, minted, rs, dz>>

\* server.py:278-290
gs_no_diarization ==
    /\ gs.pc = "no_diarization"
    /\ response' = SpeakersResponse(ManualEntries(manual_speakers, {}), 0, <<>>)
    /\ gs' = [IdleGs EXCEPT !.read_diarization = gs.read_diarization,
                            !.read_speakers = {manual_speakers}]
    /\ UNCHANGED <<audio_buffer, current_diarization, manual_speakers,
                   speaker_counter, threads, minted, rs, dz>>

\* server.py:293
gs_map ==
    /\ gs.pc = "map"
    /\ gs' = [gs EXCEPT
                 !.pc = "times",
                 !.mapping = map_pyannote_to_manual_speakers(current_diarization,
                                                             manual_speakers),
                 !.read_diarization = @ \cup {current_diarization},
                 !.read_speakers = @ \cup {manual_speakers}]
    /\ UNCHANGED <<audio_buffer, current_diarization, manual_speakers,
                   speaker_counter, threads, response, minted, rs, dz>>

\* server.py:296-303
gs_times ==
    /\ gs.pc = "times"
    /\ gs' = [gs EXCEPT
                 !.pc = "entries",
                 !.speaker_times = speaker_times_of(current_diarization),
                 !.read_diarization = @ \cup {current_diarization}]
    /\ UNCHANGED <<audio_buffer, current_diarization, manual_speakers,
                   speaker_counter, threads, response, minted, rs, dz>>

\* server.py:305-324
gs_entries ==
    /\ gs.pc = "entries"
    /\ gs' = [gs EXCEPT
                 !.pc = "timeline",
                 !.entries = SpeakerList(gs.speaker_times, gs.mapping, manual_speakers),
                 !.read_speakers = @ \cup {manual_speakers}]
    /\ UNCHANGED <<audio_buffer, current_diarization, manual_speakers,
                   speaker_counter, threads, response, minted, rs, dz>>

\* server.py:326-340
gs_timeline ==
    /\ gs.pc = "timeline"
    /\ response' = SpeakersResponse(gs.entries, SumTimes(gs.entries),
                                    timeline_segments(current_diarization, gs.mapping))
    /\ gs' = [IdleGs EXCEPT
                 !.read_diarization = gs.read_diarization \cup {current_diarization},
                 !.read_speakers = gs.read_speakers]
    /\ UNCHANGED <<audio_buffer, current_diarization, manual_speakers,
                   speaker_counter, threads, minted, rs, dz>>

\* server.py:408-409
reset_audio ==
    /\ rs = "idle"
    /\ audio_buffer' = <<>>
    /\ rs' = "audio_cleared"
    /\ threads' = AliveAtReset(threads)
    /\ UNCHANGED <<current_diarization, manual_speakers, speaker_counter,
                   response, minted, gs, dz>>

\* server.py:411
reset_diarization ==
    /\ rs = "audio_cleared"
    /\ current_diarization' = <<>>
    /\ rs' = "diarization_cleared"
    /\ UNCHANGED <<audio_buffer, manual_speakers, speaker_counter,
                   threads, response, minted, gs, dz>>

\* server.py:412
reset_speakers ==
    /\ rs = "diarization_cleared"
    /\ manual_speakers' = <<>>
    /\ rs' = "speakers_cleared"
    /\ UNCHANGED <<audio_buffer, current_diarization, speaker_counter,
                   threads, response, minted, gs, dz>>

\* server.py:413-415
reset_counter ==
    /\ rs = "speakers_cleared"
    /\ speaker_counter' = 0
    /\ minted' = [minted EXCEPT !.session = {}]
    /\ response' = ResetResponse
    /\ rs' = "idle"
    /\ UNCHANGED <<audio_buffer, current_diarization, manual_speakers, threads, gs, dz>>

\* The requests that run beside get_speakers and reset: a delivery of each
\* result, a call that delivers nothing, an accepted and a rejected anchor
ConcJobData ==
    {data \in JobData : WebhookDelivers(data)}
    \cup {[status |-> "failed", has_output |-> FALSE, has_diarization |-> FALSE,
           diarization |-> <<>>]}

ConcAddRequests ==
    {[has_name |-> TRUE, name |-> "Alice", has_timecode |-> TRUE, timecode |-> 0],
     [has_name |-> FALSE, name |-> "", has_timecode |-> TRUE, timecode |-> 0]}

ConcNext ==
    \/ gs_begin
    \/ gs_no_diarization
    \/ gs_map
    \/ gs_times
    \/ gs_entries
    \/ gs_timeline
    \/ reset_audio
    \/ reset_diarization
    \/ reset_speakers
    \/ reset_counter
    \/ \E data \in ConcJobData : webhook_diarization(data)
    \/ \E data \in ConcAddRequests : add_speaker(data)

ConcSpec == Init /\ [][ConcNext]_vars

----------------------------------------------------------------------------
(* The session with diarize and reset running statement by statement beside *)
(* add_audio, add_speaker and the poll threads.  What a request does while  *)
(* it holds audio_lock (server.py:184-185, 211-219, 408-409) is one step;   *)
(* the statements of reset that follow its locked one leave audio_buffer    *)
(* alone and are taken together.                                            *)

\* server.py:411-415
reset_session ==
    /\ rs = "audio_cleared"
    /\ current_diarization' = <<>>
    /\ manual_speakers' = <<>>
    /\ speaker_counter' = 0
    /\ minted' = [minted EXCEPT !.session = {}]
    /\ response' = ResetResponse
    /\ rs' = "idle"
    /\ UNCHANGED <<audio_buffer, threads, gs, dz>>

\* server.py:202-209
dz_begin ==
    /\ dz.pc = "idle"
    /\ IF Len(manual_speakers) = 0
       THEN /\ dz' = IdleDz
            /\ response' = [NoResponse EXCEPT
                               !.op = "diarize", !.status = 200,
                               !.message = "No speakers added yet. Click + to add speakers."]
       ELSE /\ dz' = [IdleDz EXCEPT !.pc = "lock",
                                    !.num_speakers = Len(manual_speakers)]
            /\ UNCHANGED response
    /\ UNCHANGED <<audio_buffer, current_diarization, manual_speakers,
                   speaker_counter, threads, minted, gs, rs>>

\* A drain that empties the buffer it has joined
dz_locked_draining ==
    /\ dz.pc = "lock"
    /\ IF audio_buffer = <<>>
       THEN /\ dz' = IdleDz
            /\ response' = [NoResponse EXCEPT !.op = "diarize", !.status = 200,
                                              !.message = "No audio to process"]
            /\ UNCHANGED audio_buffer
       ELSE /\ dz' = [dz EXCEPT !.pc = "submit", !.full_audio = Join(audio_buffer)]
            /\ audio_buffer' = <<>>
            /\ UNCHANGED response
    /\ UNCHANGED <<current_diarization, manual_speakers,
                   speaker_counter, threads, minted, gs, rs>>

\* server.py:211-219, holding audio_lock
dz_locked ==
    /\ dz.pc = "lock"
    /\ IF audio_buffer = <<>>
       THEN /\ dz' = IdleDz
            /\ response' = [NoResponse EXCEPT !.op = "diarize", !.status = 200,
                                              !.message = "No audio to process"]
       ELSE /\ dz' = [dz EXCEPT !.pc = "submit", !.full_audio = Join(audio_buffer)]
            /\ UNCHANGED response
    /\ UNCHANGED <<audio_buffer, current_diarization, manual_speakers,
                   speaker_counter, threads, minted, gs, rs>>

\* server.py:224-227 raising, 249-251
dz_upstream_error ==
    /\ dz.pc = "submit"
    /\ dz' = IdleDz
    /\ response' = [NoResponse EXCEPT !.op = "diarize", !.status = 500,
                                      !.error = "HTTPError"]
    /\ UNCHANGED <<audio_buffer, current_diarization, manual_speakers,
                   speaker_counter, threads, minted, gs, rs>>

\* server.py:224-247
dz_submit(job_id) ==
    /\ dz.pc = "submit"
    /\ job_id \notin DOMAIN threads
    /\ threads' = (job_id :> NewThread(dz.full_audio)) @@ threads
    /\ dz' = IdleDz
    /\ response' = [NoResponse EXCEPT !.op = "diarize", !.status = 200,
                                      !.success = TRUE]
    /\ UNCHANGED <<audio_buffer, current_diarization, manual_speakers,
                   speaker_counter, minted, gs, rs>>

AudioNext ==
    \/ \E audio_data \in Chunks : add_audio(audio_data)
    \/ dz_begin
    \/ dz_locked
    \/ dz_upstream_error
    \/ \E job_id \in JobIds : dz_submit(job_id)
    \/ reset_audio
    \/ reset_session
    \/ \E data \in {d \in ConcAddRequests : d.has_name} : add_speaker_stored(data)
    \/ \E t \in DOMAIN threads : poll_request_fails(t)
    \/ \E t \in DOMAIN threads : thread_exit(t)

AudioSpec == Init /\ [][AudioNext]_vars

----------------------------------------------------------------------------
(* Properties *)

CurrentMapping == map_pyannote_to_manual_speakers(current_diarization, manual_speakers)

Anchors == Range(manual_speakers)

RawLabels == SpeakersOf(current_diarization)

\* The anchor's timecode lies within [start, end] of a segment of the raw label
LiesWithin(anchor, label) ==
    \E i \in DOMAIN current_diarization :
        /\ current_diarization[i].speaker = label
        /\ current_diarization[i].start <= anchor.timecode
        /\ anchor.timecode <= current_diarization[i].end

LiesWithinExactly(anchor, label) ==
    /\ LiesWithin(anchor, label)
    /\ \A other \in RawLabels \ {label} : ~LiesWithin(anchor, other)

RECURSIVE SumDurations(_)
SumDurations(segments) ==
    IF segments = <<>> THEN 0
    ELSE Head(segments).end - Head(segments).start + SumDurations(Tail(segments))

\* C1: the mapping of map_pyannote_to_manual_speakers is injective: no two
\* distinct raw labels are mapped to the same anchor name (and, the mapping
\* being a dict, no raw label is mapped to two names).
C1_MappingInjective ==
    \A l1 \in DOMAIN CurrentMapping, l2 \in DOMAIN CurrentMapping :
        l1 # l2 => CurrentMapping[l1] # CurrentMapping[l2]

\* C2, as stated: an anchor whose timecode lies within a segment of exactly
\* one raw label is paired with that raw label.
C2_ZeroCostExactness ==
    \A a \in Anchors, g \in RawLabels :
        LiesWithinExactly(a, g) =>
            g \in DOMAIN CurrentMapping /\ CurrentMapping[g] = a.name

\* C2, amended: an anchor whose timecode lies within a segment of exactly one
\* raw label, while no other anchor's timecode lies within a segment of that
\* raw label, is paired with that raw label.
C2_ZeroCostExactnessUncontested ==
    \A a \in Anchors, g \in RawLabels :
        (/\ LiesWithinExactly(a, g)
         /\ \A b \in Anchors \ {a} : ~LiesWithin(b, g))
        => g \in DOMAIN CurrentMapping /\ CurrentMapping[g] = a.name

\* Two raw labels; an anchor inside one of them only and uncontested there,
\* minted after a differently named anchor that is at a positive distance
\* from that raw label; the query answered.
C2_Witness ==
    /\ response.op = "get_speakers"
    /\ Cardinality(RawLabels) = 2
    /\ \E a \in Anchors, b \in Anchors, g \in RawLabels :
          /\ a.name # b.name
          /\ b.order < a.order
          /\ LiesWithinExactly(a, g)
          /\ ~LiesWithin(b, g)
          /\ CurrentMapping[g] = a.name

\* C3: every entry of the get_speakers response reports exactly the summed
\* duration of the timeline segments that carry the entry's name (0 when
\* there is none).
C3_AggregationCorrect ==
    response.op = "get_speakers" =>
        \A k \in DOMAIN response.speakers :
            response.speakers[k].time =
                SumDurations(SelectSeq(response.timeline,
                    LAMBDA seg : seg.speaker = response.speakers[k].name))

\* C10: with a result stored, the response has one entry per raw label and one
\* zero-time entry per anchor the mapping left unpaired (the mapping pairs as
\* many anchors as it has raw labels), so that no anchor is missing.
C10_EveryAnchorListed ==
    (response.op = "get_speakers" /\ current_diarization # <<>>) =>
        /\ \A l \in RawLabels :
              Cardinality({k \in DOMAIN response.speakers :
                              response.speakers[k].id = l}) = 1
        /\ Cardinality({a \in Anchors :
                           \E k \in DOMAIN response.speakers :
                               /\ response.speakers[k].id = a.id
                               /\ response.speakers[k].time = 0})
             = Len(manual_speakers) - Cardinality(DOMAIN CurrentMapping)

EmptyView == SpeakersResponse(<<>>, 0, <<>>)

\* C4: a get_speakers issued right after reset returns zero speakers, total
\* time 0 and an empty timeline.
C4_ResetCompleteness ==
    [][reset => GetSpeakersBody(current_diarization', manual_speakers') = EmptyView]_vars

\* A reset answered in a session that had anchors and started a job.
C4_Witness ==
    /\ response.op = "reset"
    /\ minted.ever # {}
    /\ DOMAIN threads # {}
    /\ GetSpeakersBody(current_diarization, manual_speakers) = EmptyView

\* C5, as stated: add_speaker never returns an id it has returned before,
\* resets included.
C5_IdsNeverReused ==
    [][\A data \in AddRequests :
          add_speaker_stored(data) => response'.id \notin minted.ever]_vars

\* C5, amended: add_speaker never returns an id it has returned since the
\* last reset.
C5_IdsUniqueBetweenResets ==
    [][\A data \in AddRequests :
          add_speaker_stored(data) => response'.id \notin minted.session]_vars

\* Two ids minted in one session, the second just returned.
C5_Witness ==
    /\ response.op = "add_speaker" /\ response.success
    /\ response.id \in minted.session
    /\ Cardinality(minted.session) >= 2
    /\ Len(manual_speakers) >= 2

\* C7: a poll thread that ends on a failed or canceled job, on an error or on
\* the timeout, and a webhook call with another status than succeeded or
\* without a diarization output, leave the stored result, the anchors and the
\* id counter as they were.
C7_UpstreamFailureUntouched ==
    [][/\ \A t \in DOMAIN threads :
             (/\ t \in DOMAIN threads'
              /\ threads[t].pc = "polling"
              /\ threads'[t].pc = "done"
              /\ \/ threads'[t].status # "succeeded"
                 \/ threads'[t].error # "")
             => UNCHANGED session
       /\ \A data \in JobData :
             (/\ webhook_diarization(data)
              /\ \/ data.status # "succeeded"
                 \/ ~(data.has_output /\ data.has_diarization))
             => UNCHANGED session
      ]_vars

\* A job that ended failed, in a session holding a result.
C7_Witness ==
    /\ current_diarization # <<>>
    /\ manual_speakers # <<>>
    /\ \E t \in DOMAIN threads :
          /\ threads[t].pc = "done"
          /\ threads[t].status = "failed"

\* C8: add_speaker without a name, with an empty name or without a timecode
\* answers an error and changes neither manual_speakers nor speaker_counter;
\* otherwise (timecode 0 included) it appends one anchor and returns it.
C8_AddSpeakerValidation ==
    [][\A data \in AddRequests :
          add_speaker(data) =>
             IF ~data.has_name \/ data.name = "" \/ ~data.has_timecode
             THEN /\ response'.status = 400
                  /\ response'.error # ""
                  /\ UNCHANGED <<manual_speakers, speaker_counter>>
             ELSE /\ response'.status = 200 /\ response'.success
                  /\ response'.name = data.name
                  /\ response'.timecode = data.timecode
                  /\ Len(manual_speakers') = Len(manual_speakers) + 1
                  /\ SubSeq(manual_speakers', 1, Len(manual_speakers)) = manual_speakers
                  /\ manual_speakers'[Len(manual_speakers')].id = response'.id
                  /\ manual_speakers'[Len(manual_speakers')].name = data.name
                  /\ manual_speakers'[Len(manual_speakers')].timecode = data.timecode
      ]_vars

\* An anchor stored with timecode 0.
C8_Witness ==
    /\ response.op = "add_speaker"
    /\ response.success
    /\ response.timecode = 0
    /\ manual_speakers # <<>>
    /\ manual_speakers[Len(manual_speakers)].id = response.id
    /\ manual_speakers[Len(manual_speakers)].timecode = 0

\* C9: update_speaker_name succeeds, and get_speakers then reports the
\* identity under the new name.
C9_RenameApplies ==
    response.op = "update_speaker_name" =>
        /\ response.status = 200 /\ response.success
        /\ LET body == GetSpeakersBody(current_diarization, manual_speakers)
           IN  \A k \in DOMAIN body.speakers :
                   body.speakers[k].id = response.id =>
                       body.speakers[k].name = response.name

\* C6: the response of a get_speakers request is the view of one diarization
\* result and one anchor set.
C6_ConsistentView ==
    (gs.pc = "idle" /\ response.op = "get_speakers") =>
        \E D \in DeliveredDiarizations, M \in gs.read_speakers :
            response = GetSpeakersBody(D, M)

----------------------------------------------------------------------------
(* The audio buffer under interleaved requests (AudioSpec) *)

\* A step in which a diarize request takes its snapshot of the buffer
TakesSnapshot == dz.pc = "lock" /\ dz'.pc = "submit"

\* A step of a diarize request
DiarizeStep == dz' # dz

\* C11, as stated: the step in which diarize takes its snapshot leaves
\* audio_buffer empty.
C11_DrainClearsBuffer ==
    [][TakesSnapshot => audio_buffer' = <<>>]_vars

\* C11, amended: no step of diarize changes audio_buffer; the snapshot is
\* taken of a buffer that stays as it is, so that what was buffered before
\* a drain is submitted again by the next one.
C11_DrainKeepsBuffer ==
    [][DiarizeStep => /\ audio_buffer' = audio_buffer
                      /\ TakesSnapshot => audio_buffer' # <<>>]_vars

\* A second diarize request has taken as its snapshot the audio a job is
\* still being polled for, with no reset begun in between.
C11_Witness ==
    /\ dz.pc = "submit"
    /\ audio_buffer # <<>>
    /\ \E t \in DOMAIN threads :
          /\ ~threads[t].before_reset
          /\ threads[t].audio # <<>>
          /\ threads[t].audio = dz.full_audio

\* The chunks of a buffer one after the other
RECURSIVE ConcatUpTo(_, _)
ConcatUpTo(buffer, n) ==
    IF n = 0 THEN <<>> ELSE ConcatUpTo(buffer, n - 1) \o buffer[n]

\* C19: audio_buffer changes only by the append of one whole chunk at its
\* end (add_audio) or by being emptied (reset); the snapshot a diarize
\* request takes under the lock is the concatenation, in append order, of
\* the chunks then buffered, and it is the audio submitted for the job.
C19_AudioExclusive ==
    [][/\ audio_buffer' # audio_buffer =>
            \/ \E c \in Chunks : audio_buffer' = Append(audio_buffer, c)
            \/ audio_buffer' = <<>> /\ rs = "idle" /\ rs' = "audio_cleared"
       /\ TakesSnapshot =>
            dz'.full_audio = ConcatUpTo(audio_buffer, Len(audio_buffer))
       /\ \A t \in DOMAIN threads' \ DOMAIN threads :
            threads'[t].audio = dz.full_audio]_vars

\* Two different chunks were appended, a reset emptied the buffer, two
\* chunks were appended again and submitted in their order.
C19_Witness ==
    /\ audio_buffer = << <<2, 3>>, <<1>> >>
    /\ \E t \in DOMAIN threads :
          /\ threads[t].audio = <<2, 3, 1>>
          /\ ~threads[t].before_reset
    /\ minted.ever # minted.session

----------------------------------------------------------------------------
(* The phases of the session *)

\* server.py:277: the session has a result when current_diarization is not empty
HasResult == current_diarization # <<>>

\* A step that delivers new_diarization through process_diarization_result
Delivery(new_diarization) ==
    \E data \in JobData :
        /\ data.has_diarization
        /\ data.diarization = new_diarization
        /\ \/ WebhookDelivers(data) /\ webhook_diarization(data)
           \/ \E t \in DOMAIN threads : PollDelivers(data) /\ poll_terminal(t, data)

\* C12, as stated: a session that has a result keeps having one in every
\* step that is not a reset.
C12_PhaseOneWay ==
    [][(HasResult /\ ~HasResult') => reset]_vars

\* C12, amended: a session that has a result keeps having one in every step
\* that is neither a reset nor the delivery of a result without segments; a
\* delivery of a result with segments puts the session in that phase.
C12_PhaseOneWayButEmptyResult ==
    [][/\ (HasResult /\ ~HasResult') => (reset \/ Delivery(<<>>))
       /\ \A d \in DeliveredDiarizations \ {<<>>} : Delivery(d) => HasResult']_vars

\* A query was answered with a timeline, then the poll thread delivered a
\* result without segments, and the session is back without a result.
C12_Witness ==
    /\ response.op = "get_speakers"
    /\ response.timeline # <<>>
    /\ ~HasResult
    /\ manual_speakers # <<>>
    /\ \E t \in DOMAIN threads :
          /\ threads[t].pc = "done"
          /\ threads[t].status = "succeeded"
          /\ threads[t].error = ""

\* reset has cleared something, and something still holds a value
PartiallyReset ==
    \/ /\ rs = "audio_cleared"
       /\ current_diarization # <<>> \/ manual_speakers # <<>> \/ speaker_counter # 0
    \/ /\ rs = "diarization_cleared"
       /\ manual_speakers # <<>> \/ speaker_counter # 0
    \/ /\ rs = "speakers_cleared"
       /\ speaker_counter # 0

\* C13: while reset has cleared a part of the state and not yet the rest, no
\* other request takes a step: nothing observes or writes that state.
C13_ResetAtomic ==
    [][PartiallyReset => rs' # rs]_vars

\* C14: diarize called with no anchor or with an empty buffer answers
\* success false with a message and no error status, starts no job and no
\* thread and leaves the session as it is.
C14_EmptyStateNothingToDo ==
    [][(diarize /\ (Len(manual_speakers) = 0 \/ audio_buffer = <<>>)) =>
          /\ response'.op = "diarize"
          /\ response'.status = 200
          /\ response'.success = FALSE
          /\ response'.message # ""
          /\ response'.error = ""
          /\ UNCHANGED <<audio_buffer, current_diarization, manual_speakers,
                         speaker_counter, threads>>]_vars

\* diarize answered that there is no audio, in a session with an anchor and
\* a result.
C14_Witness ==
    /\ response.op = "diarize"
    /\ response.message = "No audio to process"
    /\ manual_speakers # <<>>
    /\ audio_buffer = <<>>
    /\ current_diarization # <<>>

\* C17: a poll thread that was alive when a reset began installs no result.
C17_NoStaleDelivery ==
    [][\A t \in DOMAIN threads :
          (/\ threads[t].before_reset
           /\ threads[t].pc = "polling"
           /\ t \in DOMAIN threads'
           /\ threads'[t].pc = "done")
          => current_diarization' = current_diarization]_vars

\* C18: with no result stored, get_speakers lists every anchor once, by id
\* and name, with time 0, total time 0 and no timeline, and changes nothing
\* of the session.
C18_NoResultView ==
    [][(get_speakers /\ current_diarization = <<>>) =>
          /\ response'.speakers =
                 [k \in DOMAIN manual_speakers |->
                     [id |-> manual_speakers[k].id,
                      name |-> manual_speakers[k].name,
                      time |-> 0]]
          /\ response'.totalTime = 0
          /\ response'.timeline = <<>>
          /\ UNCHANGED <<audio_buffer, current_diarization, manual_speakers,
                         speaker_counter, threads>>]_vars

\* The query answered with no result stored and two anchors of the same name.
C18_Witness ==
    /\ response.op = "get_speakers"
    /\ current_diarization = <<>>
    /\ Len(manual_speakers) = 2
    /\ manual_speakers[1].name = manual_speakers[2].name
    /\ Len(response.speakers) = 2

----------------------------------------------------------------------------
(* The pairings of the proximity matcher (MatchSpec) *)

CurrentCommits == Range(matched_pairs(current_diarization, manual_speakers))

\* The cost of pairing an anchor with a raw label
CostOf(anchor, label) ==
    calculate_min_distance_to_speaker(anchor.timecode,
                                      pyannote_segments(current_diarization, label))

\* The mapping is the committed pairings, raw label to anchor name
MappingIsCommits(mapping, commits) ==
    /\ DOMAIN mapping = {c.pyannote_id : c \in commits}
    /\ \A c \in commits :
          /\ mapping[c.pyannote_id] = NameOf(manual_speakers, c.manual_id)
          /\ \E a \in Anchors : a.id = c.manual_id /\ c.cost = CostOf(a, c.pyannote_id)

\* The candidate pairs with their costs
Candidates ==
    {[cost |-> CostOf(a, g), manual_id |-> a.id, pyannote_id |-> g] :
        a \in Anchors, g \in RawLabels}

\* C15: when the matcher has run for a query, for every committed pairing
\* and every other candidate pair of strictly lower cost, the anchor or the
\* raw label of that candidate is committed in a pairing that costs no more
\* than the candidate; and when there is a candidate at all, a pair of the
\* least cost is committed.
C15_GreedyOrder ==
    response.op = "get_speakers" =>
    LET commits == CurrentCommits
        candidates == Candidates
    IN  /\ MappingIsCommits(CurrentMapping, commits)
        /\ \A c \in commits, p \in candidates :
              (p # c /\ p.cost < c.cost)
              => \E d \in commits :
                    /\ d.manual_id = p.manual_id \/ d.pyannote_id = p.pyannote_id
                    /\ d.cost <= p.cost
        /\ candidates # {} =>
              \E c \in commits : \A p \in candidates : c.cost <= p.cost

\* Two pairings are committed, one of them at a positive cost although a
\* candidate pair costs less, and the query is answered.
C15_Witness ==
    /\ response.op = "get_speakers"
    /\ Cardinality(CurrentCommits) = 2
    /\ \E c \in CurrentCommits, a \in Anchors, g \in RawLabels :
          /\ CostOf(a, g) < c.cost
          /\ \A d \in CurrentCommits : <<d.manual_id, d.pyannote_id>> # <<a.id, g>>

\* C16: run for a query with at least one anchor, the matcher commits as
\* many pairings as the smaller of the number of anchors and the number of
\* raw labels, no anchor and no raw label twice; with no more anchors than
\* raw labels every anchor is paired.
C16_PairingCount ==
    (response.op = "get_speakers" /\ manual_speakers # <<>>) =>
        LET commits == CurrentCommits
            labels == RawLabels
        IN  /\ MappingIsCommits(CurrentMapping, commits)
            /\ Cardinality(commits) = Min(Len(manual_speakers), Cardinality(labels))
            /\ \A c \in commits, d \in commits :
                  c # d => c.manual_id # d.manual_id /\ c.pyannote_id # d.pyannote_id
            /\ Len(manual_speakers) <= Cardinality(labels) =>
                  \A a \in Anchors : \E c \in commits : c.manual_id = a.id

\* Two anchors and two raw labels, one anchor at a positive distance from
\* every segment and paired all the same; the query answered.
C16_Witness ==
    /\ response.op = "get_speakers"
    /\ Len(manual_speakers) = 2
    /\ Cardinality(RawLabels) = 2
    /\ \E a \in Anchors :
          /\ \A g \in RawLabels : CostOf(a, g) > 0
          /\ \E c \in CurrentCommits : c.manual_id = a.id

----------------------------------------------------------------------------
(* The poll loop (PollSpec) *)

\* What one step does to a thread that is there before and after it
PollBounded(old, new) ==
    /\ new.attempts \in {old.attempts, old.attempts + 1}
    /\ new.attempts <= MaxAttempts
    /\ (old.pc = "polling" /\ new # old /\ new.before_reset = old.before_reset)
          => old.attempts < MaxAttempts
    /\ (old.pc = "polling" /\ new.attempts = MaxAttempts)
          => new.pc = "done" /\ new.error = "Job polling timeout"
    /\ (old.pc = "polling" /\ new.status \in {"succeeded", "failed", "canceled"})
          => new.pc = "done" /\ new.attempts = old.attempts
    /\ (old.pc = "polling" /\ new.error = "Job polling timeout")
          => /\ new.attempts = MaxAttempts
             /\ new.status = ""
             /\ current_diarization' = current_diarization
    /\ old.pc = "done" => new.pc = "done"

\* C20: a poll thread makes a status request only while it has made fewer
\* than max_attempts of them; a terminal status ends the loop at once; after
\* max_attempts statuses that are not terminal the loop ends with the
\* timeout and the stored result is left as it was; and a thread that polls
\* comes to its end.
C20_PollTerminates ==
    /\ [][\A t \in DOMAIN threads \cap DOMAIN threads' :
              PollBounded(threads[t], threads'[t])]_vars
    /\ \A t \in JobIds :
          (t \in DOMAIN threads /\ threads[t].pc = "polling")
              ~> (t \notin DOMAIN threads \/ threads[t].pc = "done")

\* A thread ended by the timeout after max_attempts polls, the result stored
\* before still there.
C20_Witness ==
    /\ current_diarization # <<>>
    /\ \E t \in DOMAIN threads :
          /\ threads[t].pc = "done"
          /\ threads[t].error = "Job polling timeout"
          /\ threads[t].attempts = MaxAttempts

====
